---- MODULE Spec2Model ----
(***************************************************************************)
(* A model of TCreator/Main.py: the regex based property extractor, the    *)
(* literal template renderer, the file enumerators and the Tkinter shell   *)
(* (TCreatorApp) that drives them.                                         *)
(*                                                                         *)
(* Text is a sequence of one-character strings, and a path is a text with  *)
(* "/" between its components.  None is the one-element sequence           *)
(* <<"None">>, which is no text because "None" is not a character.         *)
(***************************************************************************)
EXTENDS Integers, Sequences, FiniteSets, TLC

\* ------------------------------------------------------------------ bounds
\* Number of source fragments a generated .cs file is concatenated from.
MaxChunks == 3
\* Number of fragments a generated template is concatenated from.
MaxTplChunks == 4

\* ------------------------------------------------------------- characters
None == <<"None">>

\* str(None)
NoneStr == <<"N", "o", "n", "e">>

Min(a, b) == IF a < b THEN a ELSE b

Digits == {"0", "1", "2", "3", "4", "5", "6", "7", "8", "9"}
LowerSeq == <<"a", "b", "c", "d", "e", "f", "g", "h", "i", "j", "k", "l",
    "m", "n", "o", "p", "q", "r", "s", "t", "u", "v", "w", "x", "y", "z">>
UpperSeq == <<"A", "B", "C", "D", "E", "F", "G", "H", "I", "J", "K", "L",
    "M", "N", "O", "P", "Q", "R", "S", "T", "U", "V", "W", "X", "Y", "Z">>
Letters == {LowerSeq[i] : i \in 1..Len(LowerSeq)}
             \cup {UpperSeq[i] : i \in 1..Len(UpperSeq)}

\* \w of Python's re on str: letters, digits and the underscore.
WordChars == Digits \cup Letters \cup {"_"}
IsWord(c) == c \in WordChars
\* \s of Python's re.
IsSpace(c) == c \in {" ", "\n"}

\* str.upper() on one character.
UpperChar(c) ==
  IF \E i \in 1..Len(LowerSeq) : LowerSeq[i] = c
  THEN UpperSeq[CHOOSE i \in 1..Len(LowerSeq) : LowerSeq[i] = c]
  ELSE c

UpperStr(s) == [i \in 1..Len(s) |-> UpperChar(s[i])]

RECURSIVE Concat(_)
\* The concatenation of a sequence of texts.
Concat(ss) == IF ss = <<>> THEN <<>> ELSE Head(ss) \o Concat(Tail(ss))

\* s has t at index i (1-based).
HasAt(s, t, i) ==
  /\ i >= 1
  /\ i + Len(t) - 1 <= Len(s)
  /\ SubSeq(s, i, i + Len(t) - 1) = t

\* The number of indices at which t occurs in s.
Occurrences(s, t) == Cardinality({i \in 1..(Len(s) + 1) : HasAt(s, t, i)})

\* ------------------------------------------------- regular expression parts
\* The least member of a non-empty set of numbers.
Least(S) == CHOOSE x \in S : \A y \in S : x <= y

\* The index after the maximal run, from i, of word characters (word = TRUE)
\* or of white space (word = FALSE): what a greedy \w+ or \s+ consumes.
RunEnd(s, i, word) ==
  Least({j \in i..(Len(s) + 1) :
           \/ j > Len(s)
           \/ ~(IF word THEN IsWord(s[j]) ELSE IsSpace(s[j]))})

\* (.*?); from index i: the index of the first ";" reached over characters
\* other than a line break, 0 when a line break or the end comes first.
LazyEnd(s, i) ==
  LET First(stops) ==
        IF stops = {} THEN 0
        ELSE LET At(q) == IF s[q] = ";" THEN q ELSE 0 IN At(Least(stops))
  IN First({j \in i..Len(s) : s[j] \in {";", "\n"}})

\* \s+=\s+(.*?); from index i.  A greedy \s+ that gave characters back would
\* hand white space to "=" or a line break to ".", so the longest runs decide.
\* [ok, value, next]: next is the index after the ";".
AssignTail(s, i) ==
  LET Value(a, b, q) ==
        IF /\ a > i
           /\ a <= Len(s) /\ s[a] = "="
           /\ b > a + 1
           /\ q > 0
        THEN [ok |-> TRUE, value |-> SubSeq(s, b, q - 1), next |-> q + 1]
        ELSE [ok |-> FALSE, value |-> <<>>, next |-> 0]
      AfterEquals(a, b) == Value(a, b, LazyEnd(s, b))
      AfterSpace(a) == AfterEquals(a, RunEnd(s, a + 1, FALSE))
  IN AfterSpace(RunEnd(s, i, FALSE))

\* patternV = (\w+)\s+=\s+(.*?); matched at index i.
MatchV(s, i) ==
  LET Group(w, t) ==
        IF w > i /\ t.ok
        THEN [ok |-> TRUE, key |-> SubSeq(s, i, w - 1), value |-> t.value,
              next |-> t.next]
        ELSE [ok |-> FALSE, key |-> <<>>, value |-> <<>>, next |-> 0]
      AfterWord(w) == Group(w, AssignTail(s, w))
  IN AfterWord(RunEnd(s, i, TRUE))

ItemWord == <<"I", "t", "e", "m">>
TileWord == <<"T", "i", "l", "e">>

\* patternC = (?:Item|Tile)\.\w+\s+=\s+(.*?); matched at index i.
MatchC(s, i) ==
  LET Group(w, t) ==
        IF /\ \E word \in {ItemWord, TileWord} : HasAt(s, word \o <<".">>, i)
           /\ w > i + 5
           /\ t.ok
        THEN [ok |-> TRUE, key |-> <<>>, value |-> t.value, next |-> t.next]
        ELSE [ok |-> FALSE, key |-> <<>>, value |-> <<>>, next |-> 0]
      AfterWord(w) == Group(w, AssignTail(s, w))
  IN AfterWord(RunEnd(s, i + 5, TRUE))

\* pattern.match at index i, for patternC (isC) or patternV.
Match(s, i, isC) == IF isC THEN MatchC(s, i) ELSE MatchV(s, i)

RECURSIVE FindAll(_, _, _)
\* re.findall: the non-overlapping matches, leftmost first, scanning from i.
FindAll(s, i, isC) ==
  LET From(starts) ==
        IF starts = {} THEN <<>>
        ELSE LET Cons(m) == <<m>> \o FindAll(s, m.next, isC)
             IN Cons(Match(s, Least(starts), isC))
  IN From({j \in i..Len(s) : Match(s, j, isC).ok})

\* ------------------------------------------------------- get_replaced_values
\* f"<{key.upper()}>"
Placeholder(key) == <<"<">> \o key \o <<">">>

ItemKeyNoUpper(key) == Placeholder(key)

ItemKey(key) == Placeholder(UpperStr(key))

\* for (key, _), value in zip(matchesV, matchesC): replaced_values[...] = value
\* zip stops at the shorter list, and a later pair overwrites an equal key.
ItemValues(content) ==
  LET Zip(keys, mc) ==
        LET n == Min(Len(keys), Len(mc))
        IN [k \in {keys[i] : i \in 1..n} |->
              mc[CHOOSE i \in 1..n :
                   /\ keys[i] = k
                   /\ \A j \in (i + 1)..n : keys[j] # k].value]
      Keys(mv) == [i \in 1..Len(mv) |-> ItemKey(mv[i].key)]
  IN Zip(Keys(FindAll(content, 1, FALSE)), FindAll(content, 1, TRUE))

\* re.search of a literal prefix followed by \s+=\s+(.*?); : the value of the
\* leftmost match, None when there is none.
SearchAssign(s, prefix) ==
  LET First(tails) ==
        IF tails = {} THEN None
        ELSE (CHOOSE t \in tails : \A u \in tails : t.at <= u.at).value
  IN First({[at |-> i, value |-> AssignTail(s, i + Len(prefix)).value] :
              i \in {j \in 1..Len(s) :
                       /\ HasAt(s, prefix, j)
                       /\ AssignTail(s, j + Len(prefix)).ok}})

SolidPrefix == <<"M", "a", "i", "n", ".", "t", "i", "l", "e", "S", "o", "l",
    "i", "d", "[", "T", "y", "p", "e", "]">>
MergePrefix == <<"M", "a", "i", "n", ".", "t", "i", "l", "e", "M", "e", "r",
    "g", "e", "D", "i", "r", "t", "[", "T", "y", "p", "e", "]">>
BlockPrefix == <<"M", "a", "i", "n", ".", "t", "i", "l", "e", "B", "l", "o",
    "c", "k", "L", "i", "g", "h", "t", "[", "T", "y", "p", "e", "]">>
DustPrefix == <<"D", "u", "s", "t", "T", "y", "p", "e">>
MapPrefix == <<"A", "d", "d", "M", "a", "p", "E", "n", "t", "r", "y", "(",
    "n", "e", "w", " ", "C", "o", "l", "o", "r", "(">>
MapSuffix == <<")", ")", ";">>

\* (.*?) followed by the literal suffix, from index i: the index at which the
\* suffix starts, 0 when a line break or the end comes first.
LazyUntil(s, suffix, i) ==
  LET First(stops) ==
        IF stops = {} THEN 0
        ELSE LET At(q) == IF s[q] = "\n" THEN 0 ELSE q IN At(Least(stops))
  IN First({j \in i..Len(s) : HasAt(s, suffix, j) \/ s[j] = "\n"})

\* re.search(r'AddMapEntry\(new Color\((.*?)\)\);', content): group 1 of the
\* leftmost match, None when there is none.
SearchMap(s) ==
  LET Group(b, e) == IF e > 0 THEN SubSeq(s, b, e - 1) ELSE None
      After(b) == Group(b, LazyUntil(s, MapSuffix, b))
      First(groups) ==
        IF groups = {} THEN None
        ELSE (CHOOSE g \in groups : \A h \in groups : g.at <= h.at).value
  IN First({g \in {[at |-> i, value |-> After(i + Len(MapPrefix))] :
                     i \in {j \in 1..Len(s) : HasAt(s, MapPrefix, j)}} :
              g.value # None})

RECURSIVE Split(_, _)
\* str.split(sep) for a one-character separator.
Split(s, sep) ==
  IF \E i \in 1..Len(s) : s[i] = sep
  THEN LET i == CHOOSE j \in 1..Len(s) :
                  s[j] = sep /\ \A k \in 1..(j - 1) : s[k] # sep
       IN <<SubSeq(s, 1, i - 1)>> \o Split(SubSeq(s, i + 1, Len(s)), sep)
  ELSE <<s>>

\* The three map colours of lines 121-128: colors[:3] when the match has at
\* least three comma separated parts, None three times otherwise.
MapColors(content) ==
  LET Colors(colors) ==
        IF Len(colors) >= 3 THEN <<colors[1], colors[2], colors[3]>>
        ELSE <<None, None, None>>
      Found(m) ==
        IF m # None THEN Colors(Split(m, ",")) ELSE <<None, None, None>>
  IN Found(SearchMap(content))

TileValues(content) ==
  LET Values(found, c) ==
        [solid |-> found[1],
         merge_dirt |-> found[2],
         block_light |-> found[3],
         dust_type |-> found[4],
         map_color_r |-> c[1],
         map_color_g |-> c[2],
         map_color_b |-> c[3]]
  IN Values([i \in 1..4 |->
               SearchAssign(content, <<SolidPrefix, MergePrefix, BlockPrefix,
                                       DustPrefix>>[i])],
            MapColors(content))

\* class FileTypes
TILE == 0
ITEM == 1
NPC == 2

\* Lines 92-140 of get_replaced_values: the mapping extracted from a file's
\* text.  A kind other than ITEM and TILE leaves replaced_values = {}.
ExtractText(content, file_type) ==
  IF file_type = ITEM THEN ItemValues(content)
  ELSE IF file_type = TILE THEN TileValues(content)
  ELSE <<>>

\* ------------------------------------------------------------------ state
\* ex: the extractor applied to one text.   rn: the renderer applied to one
\* template.   fs: the file system.   app: the TCreatorApp object and its
\* window.
VARIABLES ex, rn, fs, app

vars == <<ex, rn, fs, app>>

\* The part of the state a specification does not use.
Idle == <<>>

\* --------------------------------------------------- extractor on its own
ItemChunks == {<<"I", "t", "e", "m", ".", "d", "a", "m", "a", "g", "e", " ",
    "=", " ", "5", ";">>, <<"I", "t", "e", "m", ".", "D", "a", "m", "a", "g",
    "e", " ", "=", " ", "6", ";">>, <<"x", " ", "=", " ", "1", ";">>,
  <<"T", "i", "l", "e", ".", "u", "s", "e", "T", "i", "m", "e", " ", "=",
      " ", "2", "0", ";">>, <<"\n">>, <<"I", "t", "e", "m", ".", "b", " ",
      "=", " ", "7", "\n">>}

TileChunks == {<<"M", "a", "i", "n", ".", "t", "i", "l", "e", "S", "o", "l",
    "i", "d", "[", "T", "y", "p", "e", "]", " ", "=", " ", "t", "r", "u",
    "e", ";">>, <<"D", "u", "s", "t", "T", "y", "p", "e", " ", "=", " ", "3",
    ";">>,
  <<"A", "d", "d", "M", "a", "p", "E", "n", "t", "r", "y", "(", "n", "e",
      "w", " ", "C", "o", "l", "o", "r", "(", "2", "0", "0", ",", " ", "1",
      "0", "0", ",", " ", "5", "0", ")", ")", ";">>, <<"A", "d", "d", "M",
      "a", "p", "E", "n", "t", "r", "y", "(", "n", "e", "w", " ", "C", "o",
      "l", "o", "r", "(", "1", ",", "2", ")", ")", ";">>,
  <<"\n">>}

\* The texts made of at most MaxChunks fragments.
Texts(chunks, n) == {Concat(q) : q \in UNION {[1..k -> chunks] : k \in 0..n}}

InitExtract ==
  /\ \E kind \in {TILE, ITEM, NPC} :
       \E content \in Texts(IF kind = TILE THEN TileChunks ELSE ItemChunks,
                            MaxChunks) :
         ex = [content |-> content, kind |-> kind, done |-> FALSE,
               values |-> <<>>]
  /\ rn = Idle
  /\ fs = Idle
  /\ app = Idle

\* The extraction of lines 92-140 applied to the text read from the file.
Extract ==
  /\ ~ex.done
  /\ ex' = [ex EXCEPT !.done = TRUE,
                      !.values = ExtractText(ex.content, ex.kind)]
  /\ UNCHANGED <<rn, fs, app>>

NextExtract == Extract

SpecExtract == InitExtract /\ [][NextExtract]_vars

\* The matches of the two Item patterns in the extractor's text.
MatchesV == FindAll(ex.content, 1, FALSE)
MatchesC == FindAll(ex.content, 1, TRUE)

\* C1 (as stated): an Item text with N value-assignment matches and M
\* call-pattern matches yields exactly min(N, M) keys.
C1_ExactlyMinKeys ==
  (ex.done /\ ex.kind = ITEM)
    => Cardinality(DOMAIN ex.values) = Min(Len(MatchesV), Len(MatchesC))

\* C1 (amended): the mapping has one key per distinct upper-cased identifier
\* among the first min(N, M) value-assignment matches, hence at most
\* min(N, M) keys, and every key is "<" identifier.upper() ">".
C1_DistinctUpperKeys ==
  (ex.done /\ ex.kind = ITEM)
    => LET n == Min(Len(MatchesV), Len(MatchesC))
           ids == {UpperStr(MatchesV[i].key) : i \in 1..n}
       IN /\ Cardinality(DOMAIN ex.values) = Cardinality(ids)
          /\ Cardinality(DOMAIN ex.values) <= n
          /\ DOMAIN ex.values = {<<"<">> \o id \o <<">">> : id \in ids}

\* C1 witness: an Item text with N # M whose first min(N, M) identifiers
\* repeat, so that fewer than min(N, M) keys come out.
C1_Witness ==
  /\ ex.done /\ ex.kind = ITEM
  /\ Len(MatchesV) # Len(MatchesC)
  /\ Min(Len(MatchesV), Len(MatchesC)) >= 2
  /\ Cardinality(DOMAIN ex.values) < Min(Len(MatchesV), Len(MatchesC))


\* ------------------------------------------------------- numbers and text
DigitSeq == <<"0", "1", "2", "3", "4", "5", "6", "7", "8", "9">>

RECURSIVE NatStr(_)
NatStr(n) ==
  IF n < 10 THEN <<DigitSeq[n + 1]>>
  ELSE NatStr(n \div 10) \o <<DigitSeq[(n % 10) + 1]>>

\* str(n) for an int.
IntStr(n) == IF n < 0 THEN <<"-">> \o NatStr(-n) ELSE NatStr(n)

\* str((w, h)) for a tuple of two ints.
TupleStr(w, h) == <<"(">> \o IntStr(w) \o <<",", " ">> \o IntStr(h) \o <<")">>

\* str.strip(): leading and trailing white space removed.
Strip(s) ==
  IF \A i \in 1..Len(s) : IsSpace(s[i]) THEN <<>>
  ELSE LET a == CHOOSE i \in 1..Len(s) :
                  ~IsSpace(s[i]) /\ \A j \in 1..(i - 1) : IsSpace(s[j])
           b == CHOOSE i \in 1..Len(s) :
                  ~IsSpace(s[i]) /\ \A j \in (i + 1)..Len(s) : IsSpace(s[j])
       IN SubSeq(s, a, b)

RECURSIVE DigitsValue(_)
DigitsValue(s) ==
  IF s = <<>> THEN 0
  ELSE 10 * DigitsValue(SubSeq(s, 1, Len(s) - 1))
         + ((CHOOSE d \in 1..10 : DigitSeq[d] = s[Len(s)]) - 1)

\* The int 0 that dict.get(key, 0) returns for a missing key: like None, a
\* one-element sequence that is no text.
IntZero == <<"int 0">>

\* int(x) of lines 411-447: [ok, value] or the exception raised.  x is the int
\* 0, None or a text; a text is stripped and is an optional sign followed by
\* digits.
PyInt(x) ==
  LET Number(neg, d) ==
        IF d # <<>> /\ \A i \in 1..Len(d) : d[i] \in Digits
        THEN [ok |-> TRUE, exc |-> "",
              value |-> (IF neg THEN -1 ELSE 1) * DigitsValue(d)]
        ELSE [ok |-> FALSE, value |-> 0, exc |-> "ValueError"]
      Signed(t) ==
        IF t # <<>> /\ t[1] \in {"-", "+"}
        THEN Number(t[1] = "-", Tail(t))
        ELSE Number(FALSE, t)
  IN IF x = IntZero THEN [ok |-> TRUE, value |-> 0, exc |-> ""]
     ELSE IF x = None THEN [ok |-> FALSE, value |-> 0, exc |-> "TypeError"]
     ELSE Signed(Strip(x))

\* ---------------------------------------------------------------- renderer
RECURSIVE ReplaceFrom(_, _, _, _)
\* str.replace(old, new) from index i, for a non-empty old: every
\* non-overlapping occurrence, leftmost first.
ReplaceFrom(s, old, new, i) ==
  LET At(occ) ==
        IF occ = {} THEN SubSeq(s, i, Len(s))
        ELSE LET Next(j) == SubSeq(s, i, j - 1) \o new
                              \o ReplaceFrom(s, old, new, j + Len(old))
             IN Next(Least(occ))
  IN At({j \in i..(Len(s) - Len(old) + 1) : HasAt(s, old, j)})

RECURSIVE ReplaceDropTail(_, _, _, _)
\* ReplaceFrom with the text after the last scanned index lost.
ReplaceDropTail(s, old, new, i) ==
  LET At(occ) ==
        IF occ = {} THEN SubSeq(s, i, Len(s) - Len(old) + 1)
        ELSE LET Next(j) == SubSeq(s, i, j - 1) \o new
                              \o ReplaceDropTail(s, old, new, j + Len(old))
             IN Next(Least(occ))
  IN At({j \in i..(Len(s) - Len(old) + 1) : HasAt(s, old, j)})

ReplaceLosingTail(s, old, new) == ReplaceDropTail(s, old, new, 1)

ReplaceNonEmpty(s, old, new) == ReplaceFrom(s, old, new, 1)

\* str.replace(old, new).  An empty old matches before every character and
\* at the end.
Replace(s, old, new) ==
  IF old = <<>>
  THEN Concat([i \in 1..Len(s) |-> new \o <<s[i]>>]) \o new
  ELSE ReplaceNonEmpty(s, old, new)


\* A replacement value is a static value [callable |-> FALSE, value |-> v]
\* with v a text or None, or a thunk [callable |-> TRUE, thunk |-> name,
\* text |-> t] evaluated against env = [controls, images, mod_path, name].

\* os.path.join(a, b) for a relative b.
PathJoin(a, b) ==
  IF a = <<>> \/ a[Len(a)] = "/" THEN a \o b ELSE a \o <<"/">> \o b

\* get_image_dimensions(image_path, width, height) given the images that can
\* be opened: a pair when both flags are set or both are clear.
GetImageDimensions(images, image_path, width, height) ==
  LET size == IF image_path \in DOMAIN images THEN images[image_path]
              ELSE <<16, 16>>
  IN IF width /\ height THEN TupleStr(size[1], size[2])
     ELSE IF width THEN IntStr(size[1])
     ELSE IF height THEN IntStr(size[2])
     ELSE TupleStr(size[1], size[2])

PngOf(env) ==
  PathJoin(PathJoin(env.mod_path, <<"I", "t", "e", "m", "s">>),
           (IF env.name = None THEN NoneStr ELSE env.name) \o <<".", "p",
               "n", "g">>)

\* IntVar.get(): the int the control's text stands for, [ok, value, exc].
IntVarGet(text) ==
  LET Got(r) ==
        IF r.ok THEN r ELSE [ok |-> FALSE, value |-> 0, exc |-> "TclError"]
  IN Got(PyInt(text))

\* value() of line 156 for the lambdas of lines 430-434 and 468-471:
\* [ok, text, exc].
CallThunk(v, env) ==
  LET Str(r) == [ok |-> r.ok, text |-> IntStr(r.value), exc |-> r.exc]
  IN CASE v.thunk \in {"use_time", "damage", "map_r", "map_g", "map_b"} ->
            Str(IntVarGet(env.controls[v.thunk]))
       [] v.thunk \in {"width", "height"} ->
            \* get_image_dimensions(path, width=True) and (path, height=True):
            \* the flag that is not passed keeps its default, True
            [ok |-> TRUE, exc |-> "",
             text |-> GetImageDimensions(env.images, PngOf(env), TRUE, TRUE)]
       [] OTHER -> [ok |-> TRUE, exc |-> "", text |-> v.text]

\* Lines 155-158: value() for a callable, str(value) otherwise.
Resolve(v, env) ==
  IF v.callable THEN CallThunk(v, env)
  ELSE [ok |-> TRUE, exc |-> "",
        text |-> IF v.value = None THEN NoneStr ELSE v.value]

\* The loop left after its first iteration.
RenderLoopFirstOnly(content, replacements, env) ==
  LET Step(key, r) ==
        IF r.ok
        THEN [ok |-> TRUE, exc |-> "", text |-> Replace(content, key, r.text)]
        ELSE [ok |-> FALSE, text |-> content, exc |-> r.exc]
  IN IF replacements = <<>> THEN [ok |-> TRUE, text |-> content, exc |-> ""]
     ELSE Step(Head(replacements)[1], Resolve(Head(replacements)[2], env))

RECURSIVE RenderLoop(_, _, _)
\* Lines 153-159: the keys are replaced one after the other, in the
\* mapping's order, each in the text the earlier replacements left.
\* [ok, text, exc]: a thunk that raises ends the loop.
RenderLoop(content, replacements, env) ==
  LET Step(key, r) ==
        IF r.ok
        THEN RenderLoop(Replace(content, key, r.text), Tail(replacements),
                        env)
        ELSE [ok |-> FALSE, text |-> content, exc |-> r.exc]
  IN IF replacements = <<>> THEN [ok |-> TRUE, text |-> content, exc |-> ""]
     ELSE Step(Head(replacements)[1], Resolve(Head(replacements)[2], env))


\* ---------------------------------------------------- renderer on its own
KeyN == <<"<", "N", ">">>
KeyD == <<"<", "D", ">">>
RenderKeys == {KeyN, KeyD}
TplChunks == {KeyN, KeyD, <<"x">>, <<"<">>, <<">">>}
RenderValues == {<<"S">>, <<"N">>, <<"<", "D", ">">>, <<>>}

Static(v) == [callable |-> FALSE, value |-> v]

\* The mappings over RenderKeys, each in every iteration order.
RenderMappings ==
  {<<>>}
    \cup {<<<<k, Static(v)>>>> : k \in RenderKeys, v \in RenderValues}
    \cup {<<<<kk[1], Static(v1)>>, <<kk[2], Static(v2)>>>> :
            kk \in {p \in RenderKeys \X RenderKeys : p[1] # p[2]},
            v1 \in RenderValues, v2 \in RenderValues}

InitRender ==
  /\ \E tpl \in Texts(TplChunks, MaxTplChunks) :
       \E repl \in RenderMappings :
         rn = [tpl |-> tpl, repl |-> repl, done |-> FALSE, out |-> <<>>]
  /\ ex = Idle
  /\ fs = Idle
  /\ app = Idle

\* The replacement loop of create_file_from_template on the template read.
Render ==
  /\ ~rn.done
  /\ rn' = [rn EXCEPT !.done = TRUE,
                      !.out = RenderLoop(rn.tpl, rn.repl, Idle).text]
  /\ UNCHANGED <<ex, fs, app>>

NextRender == Render

SpecRender == InitRender /\ [][NextRender]_vars

\* The keys of the renderer's mapping and the value each resolves to.
RnKeys == {rn.repl[i][1] : i \in 1..Len(rn.repl)}
RnValue(k) ==
  rn.repl[CHOOSE i \in 1..Len(rn.repl) : rn.repl[i][1] = k][2].value

RECURSIVE Substituted(_, _)
\* The template from index i on with every key that stands there replaced by
\* its value, all at once: each value where its key stood.
Substituted(t, i) ==
  IF i > Len(t) THEN <<>>
  ELSE IF \E k \in RnKeys : HasAt(t, k, i)
       THEN LET k == CHOOSE x \in RnKeys : HasAt(t, x, i)
            IN RnValue(k) \o Substituted(t, i + Len(k))
  ELSE <<t[i]>> \o Substituted(t, i + 1)

EachKeyOnce == \A k \in RnKeys : Occurrences(rn.tpl, k) = 1

RoundTrip ==
  /\ \A k \in RnKeys : Occurrences(rn.out, k) = 0
  /\ rn.out = Substituted(rn.tpl, 1)

\* C2 (as stated): for a template holding each key exactly once, the rendered
\* text holds none of the keys and each key's value where the key stood, for
\* every choice of values and every iteration order.
C2_RoundTripAnyValues == (rn.done /\ EachKeyOnce) => RoundTrip

\* "<" and ">" alternate in s, starting with "<" and ending with ">": the
\* angle brackets of s delimit tokens that do not nest.
BracketsPaired(s) ==
  LET b == SelectSeq(s, LAMBDA c : c \in {"<", ">"})
  IN /\ Len(b) % 2 = 0
     /\ \A i \in 1..Len(b) : b[i] = (IF i % 2 = 1 THEN "<" ELSE ">")

NoBracket(s) == \A i \in 1..Len(s) : s[i] \notin {"<", ">"}

\* C2 (amended): the round trip holds, for every iteration order, when no
\* value holds "<" or ">" and the angle brackets of the template delimit
\* tokens that do not nest.
C2_RoundTripPlainValues ==
  (/\ rn.done
   /\ EachKeyOnce
   /\ BracketsPaired(rn.tpl)
   /\ \A k \in RnKeys : NoBracket(RnValue(k)))
    => RoundTrip

\* C2 witness: two keys, each once in a well-formed template, rendered with
\* plain values.
C2_Witness ==
  /\ rn.done
  /\ Len(rn.repl) = 2
  /\ EachKeyOnce
  /\ BracketsPaired(rn.tpl)
  /\ \A k \in RnKeys : NoBracket(RnValue(k))
  /\ RnValue(KeyN) # RnValue(KeyD)
  /\ rn.out # rn.tpl

\* C8: a template in which no key of the mapping occurs is rendered
\* unchanged; in particular render(t, {}) = t and a placeholder without a key
\* passes through.
C8_UnkeyedUnchanged ==
  (rn.done /\ \A k \in RnKeys : Occurrences(rn.tpl, k) = 0)
    => rn.out = rn.tpl

\* C8 witness: a non-empty mapping rendered over a template that holds a
\* placeholder of another key and none of its own.
C8_Witness ==
  /\ rn.done
  /\ rn.repl # <<>>
  /\ \A k \in RnKeys : Occurrences(rn.tpl, k) = 0
  /\ \E k \in RenderKeys \ RnKeys : Occurrences(rn.tpl, k) = 1


\* -------------------------------------------------------------- file system
\* fs = [dirs, files, images, locked]: the directories, the text of each
\* regular file, the pixel size of each file PIL can open, and the read-only
\* directories, in which no entry can be created and no file written.  Paths
\* are relative to the working directory.

Ok(v) == [ok |-> TRUE, value |-> v, exc |-> ""]
Raise(e) == [ok |-> FALSE, value |-> <<>>, exc |-> e]

EndsWith(s, suffix) ==
  Len(s) >= Len(suffix) /\ SubSeq(s, Len(s) - Len(suffix) + 1, Len(s)) = suffix

\* The index of the last "/" of p, 0 when it holds none.
LastSlash(p) ==
  LET At(slashes) ==
        IF slashes = {} THEN 0
        ELSE CHOOSE i \in slashes : \A j \in slashes : j <= i
  IN At({i \in 1..Len(p) : p[i] = "/"})

\* os.path.dirname(p)
DirName(p) ==
  LET Upto(i) == IF i > 0 THEN SubSeq(p, 1, i - 1) ELSE <<>>
  IN Upto(LastSlash(p))

\* os.path.basename(p)
BaseName(p) == SubSeq(p, LastSlash(p) + 1, Len(p))

Entries(f) == f.dirs \cup DOMAIN f.files

\* os.path.exists(p), os.path.isdir(p)
PathExists(f, p) == p \in Entries(f)
IsDir(f, p) == p \in f.dirs

\* os.listdir(p): the names of the entries of directory p.
ListDir(f, p) ==
  IF p \in f.dirs
  THEN Ok({BaseName(x) : x \in {y \in Entries(f) : y # p /\ DirName(y) = p}})
  ELSE IF p \in DOMAIN f.files THEN Raise("NotADirectoryError")
  ELSE Raise("FileNotFoundError")

ListFilesNoFilter(f, directory, extension) ==
  IF ~PathExists(f, directory) THEN Ok({})
  ELSE LET l == ListDir(f, directory)
       IN IF l.ok
          THEN Ok({SubSeq(n, 1, Len(n) - Len(extension)) :
                     n \in {m \in l.value : Len(m) >= Len(extension)}})
          ELSE l

\* list_files_with_extension(directory, extension): the names, extension cut
\* off, of the entries that end with it; empty for a path that does not exist.
ListFilesWithExtension(f, directory, extension) ==
  IF ~PathExists(f, directory) THEN Ok({})
  ELSE LET l == ListDir(f, directory)
       IN IF l.ok
          THEN Ok({SubSeq(n, 1, Len(n) - Len(extension)) :
                     n \in {m \in l.value : EndsWith(m, extension)}})
          ELSE l

\* list_folders(path): the entries of path that are directories.  os.listdir
\* is called without a check that the path exists.
ListFolders(f, path) ==
  LET l == ListDir(f, path)
  IN IF l.ok THEN Ok({n \in l.value : IsDir(f, PathJoin(path, n))}) ELSE l

\* open(path, 'r').read()
ReadFile(f, path) ==
  IF path \in DOMAIN f.files THEN Ok(f.files[path])
  ELSE IF path \in f.dirs THEN Raise("IsADirectoryError")
  ELSE Raise("FileNotFoundError")

RECURSIVE SplitLines(_)
\* The lines of a text, each with its line break: file.readlines().
SplitLines(s) ==
  IF s = <<>> THEN <<>>
  ELSE IF \E i \in 1..Len(s) : s[i] = "\n"
       THEN LET i == CHOOSE j \in 1..Len(s) :
                       s[j] = "\n" /\ \A k \in 1..(j - 1) : s[k] # "\n"
            IN <<SubSeq(s, 1, i)>> \o SplitLines(SubSeq(s, i + 1, Len(s)))
  ELSE <<s>>

\* read_file_lines(filepath): the lines, or [] with a message when the file
\* cannot be opened.  [lines, printed]
ReadFileLines(f, filepath) ==
  LET r == ReadFile(f, filepath)
  IN IF r.ok THEN [lines |-> SplitLines(r.value), printed |-> {}]
     ELSE [lines |-> <<>>, printed |-> {"error reading file"}]

\* os.mkdir(d)
MkDir(f, d) ==
  IF d = <<>> THEN Raise("FileNotFoundError")
  ELSE IF PathExists(f, d) THEN Raise("FileExistsError")
  ELSE IF DirName(d) # <<>> /\ DirName(d) \in DOMAIN f.files
       THEN Raise("NotADirectoryError")
  ELSE IF DirName(d) # <<>> /\ DirName(d) \notin f.dirs
       THEN Raise("FileNotFoundError")
  ELSE IF DirName(d) \in f.locked THEN Raise("PermissionError")
  ELSE Ok([f EXCEPT !.dirs = @ \cup {d}])

RECURSIVE MakeDirs(_, _)
\* os.makedirs(d, exist_ok=True): the file system with d and its missing
\* ancestors created, or the exception.
MakeDirs(f, d) ==
  LET Made(f1, made) ==
        IF made.ok THEN made ELSE IF IsDir(f1, d) THEN Ok(f1) ELSE made
      \* a FileExistsError of the recursive call is passed over
      Below(up) ==
        IF ~up.ok /\ up.exc # "FileExistsError" THEN up
        ELSE LET Leaf(f1) == Made(f1, MkDir(f1, d))
             IN Leaf(IF up.ok THEN up.value ELSE f)
      Under(head) ==
        Below(IF head # <<>> /\ BaseName(d) # <<>> /\ ~PathExists(f, head)
              THEN MakeDirs(f, head)
              ELSE Ok(f))
  IN Under(DirName(d))

\* open(path, 'w').write(text)
WriteFile(f, path, text) ==
  IF path \in f.dirs THEN Raise("IsADirectoryError")
  ELSE IF DirName(path) # <<>> /\ DirName(path) \in DOMAIN f.files
       THEN Raise("NotADirectoryError")
  ELSE IF DirName(path) # <<>> /\ DirName(path) \notin f.dirs
       THEN Raise("FileNotFoundError")
  ELSE IF DirName(path) \in f.locked THEN Raise("PermissionError")
  ELSE Ok([f EXCEPT !.files = [p \in DOMAIN f.files \cup {path} |->
                                 IF p = path THEN text ELSE f.files[p]]])

\* get_replaced_values(file_path, file_type): {} with a message when the
\* file cannot be opened.  [values, printed]
GetReplacedValues(f, file_path, file_type) ==
  LET r == ReadFile(f, file_path)
  IN IF r.ok
     THEN [values |-> ExtractText(r.value, file_type), printed |-> {}]
     ELSE [values |-> <<>>, printed |-> {"error opening file"}]

\* ----------------------------------------------------------- TCreatorApp
\* app = [phase, theme, mod_location, current_mod_path, current_mod, items,
\*        tiles, widgets, mods, elements, create_list, form, handler, err,
\*        printed, pressed, ext, saves]
\*   phase        "off" before __init__, "running" in mainloop, "dead" when
\*                __init__ raised
\*   widgets      the children of the root window
\*   mods         the mod buttons of the main menu
\*   elements     the ElementData of the buttons of the ScrollableWindow
\*   create_list  the Listbox self.create_list: set, alive, selection
\*   form         the form's kind and name, its IntVars (vars) and what its
\*                Spinboxes show (shown)
\*   handler      the handler that ran last;  err: the exception that
\*                escaped it, and the function that raised it
\*   printed      what the last handler printed
\*   pressed      the form as it was when Save was pressed last
\*   ext, saves   the number of changes made to the files from outside, and
\*                of presses of Save

\* Changes made to the files from outside the program, at most.
MaxExternal == 1
\* Presses of a Save button, at most.
MaxSaves == 1

NoErr == [exc |-> "", at |-> ""]
Err(e, where) == [exc |-> e, at |-> where]

NoForm == [kind |-> "", name |-> <<>>, vars |-> <<>>, shown |-> <<>>]
NoList == [set |-> FALSE, alive |-> FALSE, selection |-> ""]

\* Lines 226-229
DefaultTheme == <<<<"#", "F", "F", "F", "F", "F", "F">>, <<"#", "C", "C",
    "C", "C", "C", "C">>, <<"#", "F", "F", "A", "A", "0", "0">>, <<"#", "F",
    "F", "D", "7", "0", "0">>>>

\* Line 342
CreateOptions == {"item", "tile", "npc", "projectile", "buff"}

\* The sequences that list the members of a finite set once each: the orders
\* in which os.listdir may give them.
Orderings(S) ==
  {q \in [1..Cardinality(S) -> S] : \A i, j \in 1..Cardinality(S) :
                                       q[i] = q[j] => i = j}

\* for widget in self.root.winfo_children(): widget.destroy()
DestroyWidgets(a) ==
  [a EXCEPT !.widgets = {}, !.mods = <<>>, !.elements = <<>>,
            !.create_list.alive = FALSE, !.form = NoForm]

\* read_colors(filepath)
ReadColors(a, f, filepath) ==
  LET r == ReadFileLines(f, filepath)
  IN IF Len(r.lines) >= 4
     THEN [a EXCEPT !.theme = [i \in 1..4 |-> Strip(r.lines[i])],
                    !.printed = @ \cup r.printed]
     ELSE [a EXCEPT !.printed = @ \cup r.printed \cup {"using defaults"}]

\* read_mod_settings(filepath): [value, printed]
ReadModSettings(f, filepath) ==
  LET r == ReadFileLines(f, filepath)
  IN IF r.lines # <<>>
     THEN [value |-> Strip(r.lines[1]),
           printed |-> r.printed \cup {"mod location set"}]
     ELSE [value |-> <<>>, printed |-> r.printed]

\* create_main_menu(): the two frames, then one button per folder of the mod
\* location, in the order os.listdir gives them: one outcome per order.
CreateMainMenu(a, f) ==
  LET Listed(a1, l) ==
        IF l.ok THEN {[a1 EXCEPT !.mods = order] : order \in Orderings(l.value)}
        ELSE {[a1 EXCEPT !.err = Err(l.exc, "list_folders")]}
  IN Listed([DestroyWidgets(a) EXCEPT !.widgets = {"side_frame", "main_frame"}],
            ListFolders(f, a.mod_location))

\* get_replaced_values applied to the named files of one folder of the mod.
ValuesOf(f, mod_path, folder, file_type, names) ==
  [i \in 1..Len(names) |->
     GetReplacedValues(
       f, PathJoin(PathJoin(mod_path, folder), names[i] \o <<".", "c", "s">>),
       file_type)]

\* The ElementData of the named files, given what get_replaced_values gave.
ElementsOf(type, names, got) ==
  [i \in 1..Len(names) |->
     [type |-> type, name |-> names[i], values |-> got[i].values]]

ElementsPrinted(got) == UNION {got[i].printed : i \in 1..Len(got)}

WorkspaceWidgets ==
  {"side_frame", "main_frame", "create_list", "create_btn", "main_menu_btn"}

\* open_workspace(mod_path, mod_name): one outcome per order in which
\* os.listdir gives the item files (io) and the tile files (to).
OpenWorkspace(a, f, mod_path, mod_name) ==
  LET Shown(a1, io, to, gi, gt) ==
        [a1 EXCEPT
           !.items = io,
           !.tiles = to,
           !.elements = ElementsOf("item", io, gi) \o ElementsOf("tile", to, gt),
           !.printed = @ \cup ElementsPrinted(gi) \cup ElementsPrinted(gt),
           !.widgets = WorkspaceWidgets,
           !.create_list = [set |-> TRUE, alive |-> TRUE, selection |-> ""]]
      Listed(a1, l) ==
        IF ~l[1].ok THEN {[a1 EXCEPT !.err = Err(l[1].exc, "open_workspace")]}
        ELSE IF ~l[2].ok
             THEN {[a1 EXCEPT !.items = io,
                              !.err = Err(l[2].exc, "open_workspace")] :
                     io \in Orderings(l[1].value)}
        ELSE {Shown(a1, io, to, ValuesOf(f, mod_path, <<"I", "t", "e", "m",
            "s">>, ITEM, io),
                    ValuesOf(f, mod_path, <<"T", "i", "l", "e", "s">>, TILE,
                        to)) :
                io \in Orderings(l[1].value), to \in Orderings(l[2].value)}
  IN Listed(DestroyWidgets([a EXCEPT !.current_mod_path = mod_path,
                                     !.current_mod = mod_name]),
            [i \in 1..2 |->
               ListFilesWithExtension(
                 f, PathJoin(mod_path, <<<<"I", "t", "e", "m", "s">>, <<"T",
                     "i", "l", "e", "s">>>>[i]), <<".", "c", "s">>)])


\* dict.get(key, 0)
DictGet(d, key) == IF key \in DOMAIN d THEN d[key] ELSE IntZero

\* int(extra_data.get(key, 0)) if extra_data else 0
Prefill(extra_data, has_data, key) ==
  IF has_data /\ DOMAIN extra_data # {} THEN PyInt(DictGet(extra_data, key))
  ELSE PyInt(IntZero)

\* The form with the controls of `names`, each IntVar set to its int.
FormOf(kind, name, names, ints) ==
  LET texts == [c \in names |-> IntStr(ints[c].value)]
  IN [kind |-> kind, name |-> name, vars |-> texts, shown |-> texts]

\* build_item_form(name, extra_data): the label is packed, then the IntVars
\* are made one after the other, then the Spinboxes and the Save button.
BuildItemForm(a, name, extra_data, has_data) ==
  LET Built(a1, ints) ==
        IF ~ints.use_time.ok
        THEN [a1 EXCEPT !.err = Err(ints.use_time.exc, "build_item_form")]
        ELSE IF ~ints.damage.ok
             THEN [a1 EXCEPT !.err = Err(ints.damage.exc, "build_item_form")]
        ELSE [a1 EXCEPT
                !.widgets = @ \cup {"spin use_time", "spin damage",
                                    "save_btn"},
                !.form = FormOf("item", name, {"use_time", "damage"}, ints)]
  IN Built([a EXCEPT !.widgets = @ \cup {"form_label"}],
           [use_time |-> Prefill(extra_data, has_data, <<"<", "U", "S", "E",
               "T", "I", "M", "E", ">">>),
            damage |-> Prefill(extra_data, has_data, <<"<", "D", "A", "M",
                "A", "G", "E", ">">>)])

\* build_tile_form(name, extra_data)
BuildTileForm(a, name, extra_data, has_data) ==
  LET Built(a1, ints, bad) ==
        IF bad # {}
        THEN [a1 EXCEPT
                !.err = Err(ints[IF "map_r" \in bad THEN "map_r"
                                 ELSE IF "map_g" \in bad THEN "map_g"
                                 ELSE "map_b"].exc, "build_tile_form")]
        ELSE [a1 EXCEPT
                !.widgets = @ \cup {"spin map_r", "spin map_g", "spin map_b",
                                    "save_btn"},
                !.form = FormOf("tile", name, {"map_r", "map_g", "map_b"},
                                ints)]
      Made(a1, ints) ==
        Built(a1, ints, {c \in {"map_r", "map_g", "map_b"} : ~ints[c].ok})
  IN Made([a EXCEPT !.widgets = @ \cup {"form_label"}],
          [map_r |-> Prefill(extra_data, has_data, "map_color_r"),
           map_g |-> Prefill(extra_data, has_data, "map_color_g"),
           map_b |-> Prefill(extra_data, has_data, "map_color_b")])

\* create_element(element_data): the window is cleared first.  Without
\* element_data the kind is read from self.create_list and the name asked
\* for (asked: the answer of the dialog).
CreateElement(a, has_data, element_data, asked) ==
  LET a1 == DestroyWidgets(a)
      \* Listbox.get(Listbox.curselection()) needs the widget and a selection
      readable == a1.create_list.alive /\ a1.create_list.selection # ""
      element_type == IF has_data THEN element_data.type
                      ELSE a1.create_list.selection
      name == IF has_data THEN element_data.name ELSE asked
      extra_data == IF has_data THEN element_data.values ELSE <<>>
  IN IF ~has_data /\ ~readable
     THEN [a1 EXCEPT !.err = Err("TclError", "create_element")]
     ELSE IF element_type = "item"
          THEN BuildItemForm(a1, name, extra_data, has_data)
     ELSE IF element_type = "tile"
          THEN BuildTileForm(a1, name, extra_data, has_data)
     ELSE [a1 EXCEPT !.widgets = @ \cup {"not implemented label"}]

\* on_element_click(element_data)
OnElementClick(a, element_data) ==
  IF element_data.type \in {"item", "tile"}
  THEN CreateElement(a, TRUE, element_data, <<>>)
  ELSE [a EXCEPT !.printed = @ \cup {"not implemented"}]

\* A Spinbox edited to `text`: its textvariable is the form's IntVar.
SpinboxShowOnly(form, c, text) == [form EXCEPT !.shown[c] = text]

SpinboxEdit(form, c, text) ==
  [form EXCEPT !.shown[c] = text, !.vars[c] = text]

Thunk(name) == [callable |-> TRUE, thunk |-> name, text |-> <<>>]

\* The replacements of the Save button: lines 428-435 and 466-473, in the
\* order of the dict literal.
Replacements(form) ==
  IF form.kind = "item"
  THEN <<<<<<"<", "N", "A", "M", "E", ">">>, Static(form.name)>>,
         <<<<"<", "U", "S", "E", "T", "I", "M", "E", ">">>,
             Thunk("use_time")>>,
         <<<<"<", "D", "A", "M", "A", "G", "E", ">">>, Thunk("damage")>>,
         <<<<"<", "W", "I", "D", "T", "H", ">">>, Thunk("width")>>,
         <<<<"<", "H", "E", "I", "G", "H", "T", ">">>, Thunk("height")>>>>
  ELSE <<<<<<"<", "N", "A", "M", "E", ">">>, Static(form.name)>>,
         <<<<"<", "M", "A", "P", "R", ">">>, Thunk("map_r")>>,
         <<<<"<", "M", "A", "P", "G", ">">>, Thunk("map_g")>>,
         <<<<"<", "M", "A", "P", "B", ">">>, Thunk("map_b")>>,
         <<<<"<", "S", "O", "L", "I", "D", ">">>, [callable |-> TRUE,
             thunk |-> "const",
                        text |-> <<"t", "r", "u", "e">>]>>>>

\* create_file_from_template(template_path, new_file_path, replacements, ..):
\* [fs, exc, printed].  Only the two open() calls are inside try blocks.
CreateFileFromTemplate(f, template_path, new_file_path, replacements, env) ==
  LET Written(f1, w) ==
        IF w.ok THEN [fs |-> w.value, exc |-> "", printed |-> {"created file"}]
        ELSE [fs |-> f1, exc |-> "", printed |-> {"error writing file"}]
      Made(text, m) ==
        IF ~m.ok THEN [fs |-> f, exc |-> m.exc, printed |-> {}]
        ELSE Written(m.value, WriteFile(m.value, new_file_path, text))
      Rendered(r) ==
        IF ~r.ok THEN [fs |-> f, exc |-> r.exc, printed |-> {}]
        ELSE Made(r.text, MakeDirs(f, DirName(new_file_path)))
      Opened(t) ==
        IF ~t.ok
        THEN [fs |-> f, exc |-> "", printed |-> {"error reading template"}]
        ELSE Rendered(RenderLoop(t.value, replacements, env))
  IN Opened(ReadFile(f, template_path))

\* str.capitalize() of a lower-case word.
Capitalize(s) == IF s = <<>> THEN s ELSE <<UpperChar(s[1])>> \o Tail(s)

KindText(kind) == IF kind = "item" THEN <<"i", "t", "e", "m">> ELSE <<"t",
    "i", "l", "e">>

TemplatePath(kind) == PathJoin(<<"T", "e", "m", "p", "l", "a", "t", "e",
    "s">>, KindText(kind) \o <<".", "t", "x", "t">>)

TargetPath(mod_path, kind, name) ==
  PathJoin(PathJoin(mod_path, Capitalize(KindText(kind)) \o <<"s">>),
           (IF name = None THEN NoneStr ELSE name) \o <<".", "c", "s">>)

\* The environment the thunks of the form read when they are called.
EnvOf(a, f) ==
  [controls |-> a.form.vars, images |-> f.images,
   mod_path |-> a.current_mod_path, name |-> a.form.name]

\* save_template(element_type, name, replacements): the outcomes [app, fs].
SaveTemplate(a, f) ==
  LET Created(a1, c) ==
        IF c.exc # ""
        THEN {[app |-> [a1 EXCEPT
                          !.err = Err(c.exc, "create_file_from_template")],
               fs |-> c.fs]}
        ELSE {[app |-> a2, fs |-> c.fs] :
                a2 \in OpenWorkspace(a1, c.fs, a.current_mod_path,
                                     a.current_mod)}
      Called(c) == Created([a EXCEPT !.printed = @ \cup c.printed], c)
  IN Called(CreateFileFromTemplate(
              f, TemplatePath(a.form.kind),
              TargetPath(a.current_mod_path, a.form.kind, a.form.name),
              Replacements(a.form), EnvOf(a, f)))


\* ------------------------------------------------------ the files at start
MapOf(pairs) ==
  [p \in {x[1] : x \in pairs} |-> (CHOOSE x \in pairs : x[1] = p)[2]]

ModsDir == <<"m", "o", "d", "s">>
Mod1 == <<"m", "o", "d", "s", "/", "m", "1">>
Mod2 == <<"m", "o", "d", "s", "/", "m", "2">>

ItemTemplate ==
  <<"<", "N", "A", "M", "E", ">", " ", "<", "W", "I", "D", "T", "H", ">",
      " ", "<", "H", "E", "I", "G", "H", "T", ">", "\n", "I", "t", "e", "m",
      ".", "d", "a", "m", "a", "g", "e", " ", "=", " ", "<", "D", "A", "M",
      "A", "G", "E", ">", ";", "\n", "I", "t", "e", "m", ".", "u", "s", "e",
      "T", "i", "m", "e", " ", "=", " ", "<", "U", "S", "E", "T", "I", "M",
      "E", ">", ";", "\n">>
TileTemplate ==
  <<"A", "d", "d", "M", "a", "p", "E", "n", "t", "r", "y", "(", "n", "e",
      "w", " ", "C", "o", "l", "o", "r", "(", "<", "M", "A", "P", "R", ">",
      ",", " ", "<", "M", "A", "P", "G", ">", ",", " ", "<", "M", "A", "P",
      "B", ">", ")", ")", ";", "\n", "M", "a", "i", "n", ".", "t", "i", "l",
      "e", "S", "o", "l", "i", "d", "[", "T", "y", "p", "e", "]", " ", "=",
      " ", "<", "S", "O", "L", "I", "D", ">", ";", "\n">>

ColorsFour == <<"#", "1", "1", "1", "1", "1", "1", "\n", "#", "2", "2", "2",
    "2", "2", "2", "\n", "#", "3", "3", "3", "3", "3", "3", "\n", "#", "4",
    "4", "4", "4", "4", "4", "\n">>
ColorsThree == <<"#", "1", "1", "1", "1", "1", "1", "\n", "#", "2", "2", "2",
    "2", "2", "2", "\n", "#", "3", "3", "3", "3", "3", "3", "\n">>

\* The configurations the program is started in: the text of settings.txt and
\* of colors.TCtheme (None: the file is missing) and whether the templates
\* are there.
Scenarios ==
  {<<<<"m", "o", "d", "s", "\n">>, ColorsFour, TRUE>>,
   <<<<"m", "o", "d", "s", "\n">>, None, FALSE>>,
   <<None, ColorsFour, TRUE>>,
   <<<<>>, ColorsThree, TRUE>>,
   <<<<"n", "o", "m", "o", "d", "s", "\n">>, ColorsThree, TRUE>>}

\* The files the program finds.  Mod m1 has an item with an image and a tile
\* with a map colour; mod m2 has no Items folder and two tiles, one without a
\* map colour and one whose colour has two components.
StartFiles(settings, colors, templates) ==
  [dirs |-> {ModsDir, Mod1, Mod2, <<"m", "o", "d", "s", "/", "m", "1", "/",
      "I", "t", "e", "m", "s">>, <<"m", "o", "d", "s", "/", "m", "1", "/",
      "T", "i", "l", "e", "s">>,
             <<"m", "o", "d", "s", "/", "m", "2", "/", "T", "i", "l", "e",
                 "s">>}
              \cup (IF templates THEN {<<"T", "e", "m", "p", "l", "a", "t",
                  "e", "s">>} ELSE {}),
   files |-> MapOf(
     {<<<<"m", "o", "d", "s", "/", "r", "e", "a", "d", "m", "e", ".", "t",
         "x", "t">>, <<>>>>,
      <<<<"m", "o", "d", "s", "/", "m", "1", "/", "I", "t", "e", "m", "s",
          "/", "a", ".", "c", "s">>, <<"I", "t", "e", "m", ".", "d", "a",
          "m", "a", "g", "e", " ", "=", " ", "5", ";", "\n", "I", "t", "e",
          "m", ".", "u", "s", "e", "T", "i", "m", "e", " ", "=", " ", "2",
          "0", ";", "\n">>>>,
      <<<<"m", "o", "d", "s", "/", "m", "1", "/", "I", "t", "e", "m", "s",
          "/", "a", ".", "p", "n", "g">>, <<>>>>,
      <<<<"m", "o", "d", "s", "/", "m", "1", "/", "T", "i", "l", "e", "s",
          "/", "t", ".", "c", "s">>, <<"A", "d", "d", "M", "a", "p", "E",
          "n", "t", "r", "y", "(", "n", "e", "w", " ", "C", "o", "l", "o",
          "r", "(", "1", "0", ",", " ", "2", "0", ",", " ", "3", "0", ")",
          ")", ";", "\n">>>>,
      <<<<"m", "o", "d", "s", "/", "m", "2", "/", "T", "i", "l", "e", "s",
          "/", "u", ".", "c", "s">>, <<"M", "a", "i", "n", ".", "t", "i",
          "l", "e", "S", "o", "l", "i", "d", "[", "T", "y", "p", "e", "]",
          " ", "=", " ", "t", "r", "u", "e", ";", "\n">>>>,
      <<<<"m", "o", "d", "s", "/", "m", "2", "/", "T", "i", "l", "e", "s",
          "/", "v", ".", "c", "s">>, <<"A", "d", "d", "M", "a", "p", "E",
          "n", "t", "r", "y", "(", "n", "e", "w", " ", "C", "o", "l", "o",
          "r", "(", "1", ",", "2", ")", ")", ";", "\n">>>>}
       \cup (IF settings = None THEN {} ELSE {<<<<"s", "e", "t", "t", "i",
           "n", "g", "s", ".", "t", "x", "t">>, settings>>})
       \cup (IF colors = None THEN {} ELSE {<<<<"c", "o", "l", "o", "r", "s",
           ".", "T", "C", "t", "h", "e", "m", "e">>, colors>>})
       \cup (IF templates
             THEN {<<<<"T", "e", "m", "p", "l", "a", "t", "e", "s", "/", "i",
                 "t", "e", "m", ".", "t", "x", "t">>, ItemTemplate>>,
                   <<<<"T", "e", "m", "p", "l", "a", "t", "e", "s", "/", "t",
                       "i", "l", "e", ".", "t", "x", "t">>, TileTemplate>>}
             ELSE {})),
   images |-> MapOf({<<<<"m", "o", "d", "s", "/", "m", "1", "/", "I", "t",
       "e", "m", "s", "/", "a", ".", "p", "n", "g">>, <<32, 48>>>>}),
   locked |-> {}]

InitApp ==
  [phase |-> "off", theme |-> DefaultTheme, mod_location |-> <<>>,
   current_mod_path |-> <<>>, current_mod |-> <<>>, items |-> <<>>,
   tiles |-> <<>>, widgets |-> {}, mods |-> <<>>, elements |-> <<>>,
   create_list |-> NoList, form |-> NoForm, handler |-> "", err |-> NoErr,
   printed |-> {}, pressed |-> NoForm, ext |-> 0, saves |-> 0]

Init ==
  /\ \E sc \in Scenarios : fs = StartFiles(sc[1], sc[2], sc[3])
  /\ app = InitApp
  /\ ex = Idle
  /\ rn = Idle

\* A handler starts: what the one before printed and raised is gone.
Enter(a, handler) ==
  [a EXCEPT !.handler = handler, !.err = NoErr, !.printed = {},
            !.pressed = NoForm]

\* ------------------------------------------------------------------ actions
\* TCreatorApp(): __init__ reads the two configuration files, makes the
\* window and the main menu.  An exception ends the process.
Start ==
  /\ app.phase = "off"
  /\ LET Read(a1, s) == [a1 EXCEPT !.mod_location = s.value,
                                   !.printed = @ \cup s.printed]
     IN \E a3 \in CreateMainMenu(
                     Read(ReadColors(Enter(app, "__init__"), fs,
                                     <<"c", "o", "l", "o", "r", "s", ".",
                                         "T", "C", "t", "h", "e", "m", "e">>),
                          ReadModSettings(fs, <<"s", "e", "t", "t", "i", "n",
                              "g", "s", ".", "t", "x", "t">>)), fs) :
          app' = [a3 EXCEPT !.phase = IF a3.err = NoErr THEN "running"
                                      ELSE "dead"]
  /\ UNCHANGED <<fs, ex, rn>>

\* A mod button of the main menu is pressed.
ClickMod ==
  /\ app.phase = "running"
  /\ \E i \in 1..Len(app.mods) :
       app' \in OpenWorkspace(Enter(app, "open_workspace"), fs,
                              PathJoin(app.mod_location, app.mods[i]),
                              app.mods[i])
  /\ UNCHANGED <<fs, ex, rn>>

\* The Main Menu button of the workspace is pressed.
ClickMainMenu ==
  /\ app.phase = "running"
  /\ "main_menu_btn" \in app.widgets
  /\ app' \in CreateMainMenu(Enter(app, "create_main_menu"), fs)
  /\ UNCHANGED <<fs, ex, rn>>

\* What the name dialog may answer: a name, or None when it is cancelled.
AskedNames == {<<"b">>, None}

\* The Create button is pressed with `k` selected in the create list ("" for
\* no selection).
ClickCreate ==
  /\ app.phase = "running"
  /\ "create_btn" \in app.widgets
  /\ \E k \in CreateOptions \cup {""}, asked \in AskedNames :
       app' = CreateElement(
                [Enter(app, "create_element") EXCEPT !.create_list.selection = k],
                FALSE, <<>>, asked)
  /\ UNCHANGED <<fs, ex, rn>>

\* An element button of the workspace is pressed.
ClickElement ==
  /\ app.phase = "running"
  /\ \E i \in 1..Len(app.elements) :
       app' = OnElementClick(Enter(app, "on_element_click"), app.elements[i])
  /\ UNCHANGED <<fs, ex, rn>>

\* What the user may type into a Spinbox.
TypedTexts == {<<"0", "7">>, <<"x">>}

\* A Spinbox of the form is edited.  Only Save reads the controls, so the
\* edits made after the last Save are left out.
EditControl ==
  /\ app.phase = "running"
  /\ app.saves < MaxSaves
  /\ \E c \in DOMAIN app.form.shown, text \in TypedTexts :
       /\ app.form.shown[c] # text
       /\ app' = [Enter(app, "edit") EXCEPT
                     !.form = SpinboxEdit(app.form, c, text)]
  /\ UNCHANGED <<fs, ex, rn>>

\* The Save button of the form is pressed.
ClickSave ==
  /\ app.phase = "running"
  /\ "save_btn" \in app.widgets
  /\ app.saves < MaxSaves
  /\ \E r \in SaveTemplate([Enter(app, "save_template") EXCEPT
                               !.pressed = app.form, !.saves = @ + 1], fs) :
       /\ app' = r.app
       /\ fs' = r.fs
  /\ UNCHANGED <<ex, rn>>

\* The files of mod m1 change from outside the program: the item's source
\* file is removed, the Items folder is removed with its files or replaced by a
\* regular file of its name, or it is made read-only.
External ==
  /\ app.phase = "running"
  /\ app.ext < MaxExternal
  /\ LET d == <<"m", "o", "d", "s", "/", "m", "1", "/", "I", "t", "e", "m",
      "s">>
         Outside(paths) ==
           {x \in paths : ~(Len(x) > Len(d) /\ SubSeq(x, 1,
               Len(d) + 1) = d \o <<"/">>)}
         Without(files, p) == [q \in DOMAIN files \ {p} |-> files[q]]
     IN \/ \E p \in {<<"m", "o", "d", "s", "/", "m", "1", "/", "I", "t", "e",
         "m", "s", "/", "a", ".", "c", "s">>} \cap DOMAIN fs.files :
             fs' = [fs EXCEPT !.files = Without(@, p)]
        \/ \E asFile \in BOOLEAN :
             /\ d \in fs.dirs
             /\ fs' = [fs EXCEPT
                   !.dirs = Outside(@) \ {d},
                   !.locked = Outside(@) \ {d},
                   !.files = [q \in Outside(DOMAIN @)
                                      \cup (IF asFile THEN {d} ELSE {})
                                |-> IF q = d THEN <<>> ELSE @[q]],
                   !.images = [q \in Outside(DOMAIN @) |-> @[q]]]
        \/ /\ d \in fs.dirs \ fs.locked
           /\ fs' = [fs EXCEPT !.locked = @ \cup {d}]
  /\ app' = [Enter(app, "external") EXCEPT !.ext = @ + 1]
  /\ UNCHANGED <<ex, rn>>

Next ==
  \/ Start
  \/ ClickMod
  \/ ClickMainMenu
  \/ ClickCreate
  \/ ClickElement
  \/ EditControl
  \/ ClickSave
  \/ External

Spec == Init /\ [][Next]_vars

\* ------------------------------------------------------- claims on the app
\* C3 (as stated): pressing the button of any item or tile element opens its
\* form without an exception, and every field whose property the extracted
\* mapping lacks, or holds None for, is pre-filled with the default 0.
C3_MissingPropertyUsesDefault ==
  [][app'.handler = "on_element_click" =>
       /\ app'.err = NoErr
       /\ app'.form.kind \in {"item", "tile"}
       /\ \E i \in 1..Len(app.elements) :
            LET e == app.elements[i]
                missing == IF e.type = "item"
                           THEN {c \in {"use_time", "damage"} :
                                   (IF c = "damage" THEN <<"<", "D", "A",
                                       "M", "A", "G", "E", ">">>
                                    ELSE <<"<", "U", "S", "E", "T", "I", "M",
                                        "E", ">">>) \notin DOMAIN e.values}
                           ELSE {c \in {"map_r", "map_g", "map_b"} :
                                   e.values[IF c = "map_r" THEN "map_color_r"
                                            ELSE IF c = "map_g"
                                                 THEN "map_color_g"
                                            ELSE "map_color_b"] = None}
            IN /\ e.type = app'.form.kind
               /\ e.name = app'.form.name
               /\ \A c \in missing : app'.form.vars[c] = <<"0">>]_vars

\* C4 (as stated): when colors.TCtheme has fewer than four lines or
\* settings.txt is missing or empty, __init__ completes: the application runs
\* with the default colours (for a short colour file) and the default mod
\* location (for missing settings), and the main menu is shown.
C4_StartupFallsBackToDefaults ==
  LET short == Len(ReadFileLines(fs, <<"c", "o", "l", "o", "r", "s", ".",
      "T", "C", "t", "h", "e", "m", "e">>).lines) < 4
      unset == ReadFileLines(fs, <<"s", "e", "t", "t", "i", "n", "g", "s",
          ".", "t", "x", "t">>).lines = <<>>
  IN (app.handler = "__init__" /\ (short \/ unset))
       => /\ app.phase = "running"
          /\ app.err = NoErr
          /\ app.widgets = {"side_frame", "main_frame"}
          /\ short => app.theme = DefaultTheme
          /\ unset => app.mod_location = <<>>

\* C5 (as stated): on a path that does not exist both enumerators give the
\* empty sequence and raise nothing: list_folders on the mod location, when
\* the main menu is made, and list_files_with_extension on the Items folder,
\* when a workspace is opened.
C5_EnumeratorsTotalOnMissingPaths ==
  /\ (/\ app.handler \in {"__init__", "create_main_menu"}
      /\ ~PathExists(fs, app.mod_location))
       => (app.err = NoErr /\ app.mods = <<>>)
  /\ (/\ app.handler = "open_workspace"
      /\ ~PathExists(fs, PathJoin(app.current_mod_path, <<"I", "t", "e", "m",
          "s">>)))
       => (app.err = NoErr /\ app.items = <<>>)

\* C6: when Save has written the file, its text is the template rendered
\* with every form-controlled placeholder replaced by the decimal form of the
\* value its control held when Save was pressed, whatever edits came before.
C6_SavedValuesAreThoseAtSave ==
  (app.handler = "save_template" /\ "created file" \in app.printed)
    => LET form == app.pressed
           current(c) == IntStr(PyInt(form.shown[c]).value)
           repl == Replacements(form)
           atSave == [i \in 1..Len(repl) |->
                        IF /\ repl[i][2].callable
                           /\ repl[i][2].thunk \in DOMAIN form.shown
                        THEN <<repl[i][1], Static(current(repl[i][2].thunk))>>
                        ELSE repl[i]]
       IN fs.files[TargetPath(app.current_mod_path, form.kind, form.name)]
            = RenderLoop(fs.files[TemplatePath(form.kind)], atSave,
                         [controls |-> <<>>, images |-> fs.images,
                          mod_path |-> app.current_mod_path,
                          name |-> form.name]).text

\* C6 witness: Save has written a file from a form one of whose controls was
\* edited, to 07, after the form was built.
C6_Witness ==
  /\ app.handler = "save_template"
  /\ "created file" \in app.printed
  /\ \E c \in DOMAIN app.pressed.shown : app.pressed.shown[c] = <<"0", "7">>
  /\ Occurrences(fs.files[TargetPath(app.current_mod_path, app.pressed.kind,
                                     app.pressed.name)], <<"7">>) > 0

\* C7 (as stated): no file-system failure escapes create_file_from_template,
\* and when the target's parent directory is absent (and the template can be
\* read) the directory is made and the file written.
C7_NoFileSystemFailureEscapes ==
  [][app'.handler = "save_template" =>
       LET target == TargetPath(app.current_mod_path, app.form.kind,
                                app.form.name)
       IN /\ app'.err.at = "create_file_from_template"
               => app'.err.exc = "TclError"
          /\ (/\ ReadFile(fs, TemplatePath(app.form.kind)).ok
              /\ app'.err = NoErr
              /\ ~PathExists(fs, DirName(target)))
               => (IsDir(fs', DirName(target)) /\ target \in DOMAIN fs'.files)
    ]_vars

\* C9: after open_workspace has run, on a mod button or at the end of
\* save_template, the elements are one item element per .cs file of the
\* mod's Items folder followed by one tile element per .cs file of its Tiles
\* folder, as the folders are then, each with the values extracted from its
\* file; a file Save has just written is among them.
C9_ElementsAreTheFilesNow ==
  (app.handler \in {"open_workspace", "save_template"} /\ app.err = NoErr)
    => LET SourcesIn(folder) ==
             {p \in DOMAIN fs.files :
                /\ EndsWith(p, <<".", "c", "s">>)
                /\ DirName(p) = PathJoin(app.current_mod_path, folder)}
           items == SourcesIn(<<"I", "t", "e", "m", "s">>)
           tiles == SourcesIn(<<"T", "i", "l", "e", "s">>)
           n == Cardinality(items)
           m == Cardinality(tiles)
           Listed(from, to, type, folder, kind, sources) ==
             /\ \A i \in from..to : app.elements[i].type = type
             /\ \A i, j \in from..to :
                  app.elements[i].name = app.elements[j].name => i = j
             /\ \A i \in from..to :
                  LET p == PathJoin(PathJoin(app.current_mod_path, folder),
                                    app.elements[i].name \o <<".", "c", "s">>)
                  IN /\ p \in sources
                     /\ app.elements[i].values = ExtractText(fs.files[p], kind)
       IN /\ Len(app.elements) = n + m
          /\ Listed(1, n, "item", <<"I", "t", "e", "m", "s">>, ITEM, items)
          /\ Listed(n + 1, n + m, "tile", <<"T", "i", "l", "e", "s">>, TILE,
              tiles)
          /\ "created file" \in app.printed
               => \E i \in 1..(n + m) :
                    /\ app.elements[i].name = app.pressed.name
                    /\ app.elements[i].type = app.pressed.kind

\* C9 witness: Save has written again a source file removed from outside
\* while its form was open, and the workspace shows an item and a tile.
C9_Witness ==
  /\ app.handler = "save_template"
  /\ app.err = NoErr
  /\ "created file" \in app.printed
  /\ app.ext = 1
  /\ fs.locked = {}
  /\ Len(app.elements) = 2
  /\ app.elements[1].type = "item"
  /\ app.elements[2].type = "tile"

\* C10 (as stated): Create pressed with a kind selected in the create list
\* opens the form of that kind: the item form, the tile form, or the
\* not-implemented notice.
C10_CreateOpensSelectedForm ==
  (app.handler = "create_element" /\ app.create_list.selection # "")
    => /\ app.err = NoErr
       /\ CASE app.create_list.selection = "item" -> app.form.kind = "item"
            [] app.create_list.selection = "tile" -> app.form.kind = "tile"
            [] OTHER -> "not implemented label" \in app.widgets

\* C11 (as stated): when Save has written an item's file, its text is the
\* template rendered with <WIDTH> replaced by the decimal pixel width alone
\* and <HEIGHT> by the decimal pixel height alone of Items/<name>.png, and
\* each by 16 when the image cannot be opened.
C11_WidthAndHeightAlone ==
  (/\ app.handler = "save_template"
   /\ "created file" \in app.printed
   /\ app.pressed.kind = "item")
    => LET form == app.pressed
           env == [controls |-> form.vars, images |-> fs.images,
                   mod_path |-> app.current_mod_path, name |-> form.name]
           size == IF PngOf(env) \in DOMAIN fs.images
                   THEN fs.images[PngOf(env)] ELSE <<16, 16>>
           repl == Replacements(form)
           alone == [i \in 1..Len(repl) |->
                       IF repl[i][2].callable /\ repl[i][2].thunk = "width"
                       THEN <<repl[i][1], Static(IntStr(size[1]))>>
                       ELSE IF /\ repl[i][2].callable
                               /\ repl[i][2].thunk = "height"
                       THEN <<repl[i][1], Static(IntStr(size[2]))>>
                       ELSE repl[i]]
       IN fs.files[TargetPath(app.current_mod_path, form.kind, form.name)]
            = RenderLoop(fs.files[TemplatePath(form.kind)], alone, env).text

====
